---- MODULE Spec2Model ----
(***************************************************************************)
(* Model of the doctor crawler: the per-fragment extraction loop of        *)
(* AndalusiaHealthCrawler.extract_doctor_info (main.py), the upsert of     *)
(* save_doctor (db.py) and the report of analyze_doctors (analyze.py).     *)
(*                                                                         *)
(* Text is a sequence of one-character strings, so that strip, split,      *)
(* replace, startswith, substring tests and number parsing are computed.   *)
(* An optional value (Python None / a lookup that found nothing) is the    *)
(* empty tuple; a present value x is the one-element tuple <<x>>.          *)
(***************************************************************************)
EXTENDS Integers, Sequences, FiniteSets, TLC

VARIABLES
    input,      \* doctor_containers: the fragments handed to extract_doctor_info
    idx,        \* position of the for loop (next fragment to process)
    doctors,    \* the list `doctors` built by extract_doctor_info
    last,       \* outcome of the latest loop iteration (raised / candidate record)
    pc,         \* "loop", "done" (returned) or "raised" (exception left the call)
    table,      \* rows of the doctors table, in table order
    nextId,     \* next value of the primary-key sequence
    calls,      \* number of save_doctor calls made so far
    lastSave,   \* argument and return value of the latest save_doctor call
    analysis    \* outcome of the latest analyze_doctors call, with the rows it read

vars == <<input, idx, doctors, last, pc, table, nextId, calls, lastSave, analysis>>

extractVars == <<input, idx, doctors, last, pc>>
dbVars == <<table, nextId, calls, lastSave, analysis>>

(***************************************************************************)
(* Bounds of the model.                                                    *)
(***************************************************************************)
MaxFragments == 3
MaxSaves == 5

(***************************************************************************)
(* Optional values.                                                        *)
(***************************************************************************)
None == <<>>
Some(x) == <<x>>
IsNone(o) == o = <<>>
Get(o) == o[1]

(***************************************************************************)
(* Text literals of the source.                                            *)
(***************************************************************************)
BASE_URL == <<"h", "t", "t", "p", "s", ":", "/", "/", "w", "w", "w", ".", "a", "n", "d", "a", "l", "u", "s", "i", "a", "h", "e", "a", "l", "t", "h", ".", "c", "o", "m">>
UnknownDoctor == <<"U", "n", "k", "n", "o", "w", "n", " ", "D", "o", "c", "t", "o", "r">>
HttpPrefix == <<"h", "t", "t", "p">>
TelPrefix == <<"t", "e", "l", ":">>
LocationJoin == <<":", " ">>
OtherLocationMarker == <<"+", "1", " ", "o", "t", "h", "e", "r", " ", "l", "o", "c", "a", "t", "i", "o", "n">>
EmployedMarker == <<"E", "m", "p", "l", "o", "y", "e", "d", " ", "P", "r", "o", "v", "i", "d", "e", "r">>
AcceptsMarker == <<"A", "c", "c", "e", "p", "t", "s", " ", "N", "e", "w", " ", "P", "a", "t", "i", "e", "n", "t", "s">>
Whitespace == {" "}
Parens == {"(", ")"}
DigitChars == <<"0", "1", "2", "3", "4", "5", "6", "7", "8", "9">>

(***************************************************************************)
(* Python string operations on texts.                                      *)
(***************************************************************************)
MinOf(S) == CHOOSE x \in S : \A y \in S : x <= y
MaxOf(S) == CHOOSE x \in S : \A y \in S : x >= y

\* str.strip(chars): what lies between the first and the last character
\* that is not in chars
StripChars(s, chars) ==
    LET keep == {i \in DOMAIN s : s[i] \notin chars}
    IN IF keep = {} THEN <<>> ELSE SubSeq(s, MinOf(keep), MaxOf(keep))

\* str.strip()
Strip(s) == StripChars(s, Whitespace)

\* str.startswith(prefix)
StartsWith(s, prefix) ==
    Len(s) >= Len(prefix) /\ SubSeq(s, 1, Len(prefix)) = prefix

\* `sub in s`
Contains(s, sub) ==
    \E i \in 0..(Len(s) - Len(sub)) : SubSeq(s, i + 1, i + Len(sub)) = sub

\* str.replace(old, ""): every occurrence of old removed, scanning from
\* position i to the right
RECURSIVE RemoveFrom(_, _, _)
RemoveFrom(s, old, i) ==
    IF i > Len(s) THEN <<>>
    ELSE IF i + Len(old) - 1 <= Len(s) /\ SubSeq(s, i, i + Len(old) - 1) = old
         THEN RemoveFrom(s, old, i + Len(old))
         ELSE <<s[i]>> \o RemoveFrom(s, old, i + 1)

RemoveAll(s, old) == RemoveFrom(s, old, 1)

\* str.split(sep)[0] for a one-character separator
SplitFirst(s, sep) ==
    LET at == {i \in DOMAIN s : s[i] = sep}
    IN IF at = {} THEN s ELSE SubSeq(s, 1, MinOf(at) - 1)

DigitSet == {DigitChars[i] : i \in DOMAIN DigitChars}
IsDigit(c) == c \in DigitSet
DigitVal(c) == (CHOOSE i \in DOMAIN DigitChars : DigitChars[i] = c) - 1
AllDigits(s) == \A i \in DOMAIN s : IsDigit(s[i])

\* the number written by the first n digits of s
RECURSIVE NatValUpTo(_, _)
NatValUpTo(s, n) ==
    IF n = 0 THEN 0
    ELSE NatValUpTo(s, n - 1) * Len(DigitChars) + DigitVal(s[n])

NatVal(s) == NatValUpTo(s, Len(s))

Unsigned(s) == IF s # <<>> /\ s[1] \in {"+", "-"} THEN Tail(s) ELSE s
SignOf(s) == IF s # <<>> /\ s[1] = "-" THEN -1 ELSE 1

\* int(text): optional blanks, optional sign, one or more digits.
\* [ok |-> FALSE] stands for ValueError.
ParseInt(text) ==
    LET s == Strip(text)
        d == Unsigned(s)
    IN IF d # <<>> /\ AllDigits(d)
       THEN [ok |-> TRUE, val |-> SignOf(s) * NatVal(d)]
       ELSE [ok |-> FALSE]

\* float(text): optional blanks, optional sign, digits with an optional
\* fraction.  The value is kept in tenths (texts of the model carry at most
\* one fractional digit).  [ok |-> FALSE] stands for ValueError.
ParseFloat(text) ==
    LET s == Strip(text)
        d == Unsigned(s)
        whole == SplitFirst(d, ".")
        frac == IF Len(whole) < Len(d) THEN SubSeq(d, Len(whole) + 2, Len(d)) ELSE <<>>
    IN IF AllDigits(whole) /\ AllDigits(frac) /\ Len(whole) + Len(frac) >= 1
       THEN [ok |-> TRUE,
             val |-> SignOf(s) * (NatVal(whole) * Len(DigitChars)
                                  + (IF frac = <<>> THEN 0 ELSE DigitVal(frac[1])))]
       ELSE [ok |-> FALSE]

(***************************************************************************)
(* Fragments.  A fragment (one div.list-item-content) is described by what *)
(* each selector of extract_doctor_info finds in it: the text or attribute *)
(* of the first match, or None when nothing matches.                       *)
(*   nameEl   the doctor's own name span                                   *)
(*   urlEl    href of a[href*='/provider']                                 *)
(*   specEl   text of span[itemprop='medicalSpecialty']                    *)
(*   imgEl    src of div.provider-image img                                *)
(*   multiEl  text of a[data-testref='provider-cards-location']            *)
(*   facEl    text of span[itemprop='name'][color='gray_800']              *)
(*   addrEl   text of span[itemprop='streetAddress']                       *)
(*   phoneEl  href of a[href^='tel:']                                      *)
(*   badges   texts of the badge spans, in document order                  *)
(*   ratingEl the aggregateRating container: None, or the texts of its     *)
(*            ratingValue and ratingCount spans (each optional)            *)
(***************************************************************************)

\* container.find_element(name selector): the selector list
\* "span[itemprop='name'], a span.link_provider_display_name" also matches
\* the facility span (it is a span with itemprop='name'), which follows the
\* doctor's name on a card; NoSuchElementException when neither is there.
FindName(c) ==
    IF ~IsNone(c.nameEl) THEN c.nameEl ELSE c.facEl

NameSelectorMatches(c) == ~IsNone(FindName(c))

\* name_element.text.strip()
ExtractName(c) == Strip(Get(FindName(c)))

\* url = href, made absolute when it does not start with 'http'
ExtractUrl(c) ==
    LET url == Get(c.urlEl)
    IN IF url # <<>> /\ ~StartsWith(url, HttpPrefix)
       THEN Some(BASE_URL \o url)
       ELSE Some(url)

\* specialty_element.text.strip()
ExtractSpecialty(c) == Some(Strip(Get(c.specEl)))

\* try: img src; except: pass
ExtractImage(c) == c.imgEl

\* the inner try of the location block: the "+1 other location" test
ExtractMultipleLocations(c) ==
    ~IsNone(c.multiEl) /\ Contains(Get(c.multiEl), OtherLocationMarker)

\* the if / elif / elif on facility_name and street_address
ComposeLocation(facility_name, street_address) ==
    IF facility_name # <<>> /\ street_address # <<>>
    THEN Some(facility_name \o LocationJoin \o street_address)
    ELSE IF street_address # <<>> THEN Some(street_address)
    ELSE IF facility_name # <<>> THEN Some(facility_name)
    ELSE None

\* the location try block: either find_element raising leaves location None
ExtractLocation(c) ==
    IF IsNone(c.facEl) THEN None
    ELSE IF IsNone(c.addrEl) THEN None
    ELSE ComposeLocation(Strip(Get(c.facEl)), Strip(Get(c.addrEl)))

\* try: href.replace('tel:', ''); except: pass
ExtractPhone(c) ==
    IF IsNone(c.phoneEl) THEN None
    ELSE Some(RemoveAll(Get(c.phoneEl), TelPrefix))

\* the badge loop (written twice in the source; the second pass resets the
\* flags and recomputes them from the same elements)
ExtractBadges(c) ==
    [employed_provider |->
        \E i \in DOMAIN c.badges : Contains(Strip(c.badges[i]), EmployedMarker),
     accepts_new_patients |->
        \E i \in DOMAIN c.badges : Contains(Strip(c.badges[i]), AcceptsMarker)]

\* variant: a parsed rating outside [0, 5] is discarded
ExtractRatingInRange(c) ==
    IF IsNone(c.ratingEl) THEN [rating |-> None, rating_count |-> None]
    ELSE LET el == Get(c.ratingEl)
         IN IF IsNone(el.value) THEN [rating |-> None, rating_count |-> None]
            ELSE LET r == ParseFloat(Strip(SplitFirst(Get(el.value), "/")))
                 IN IF ~r.ok \/ r.val < 0 \/ r.val > 5 * Len(DigitChars)
                    THEN [rating |-> None, rating_count |-> None]
                    ELSE IF IsNone(el.count)
                         THEN [rating |-> Some(r.val), rating_count |-> None]
                         ELSE LET n == ParseInt(StripChars(Strip(Get(el.count)), Parens))
                              IN IF ~n.ok
                                 THEN [rating |-> Some(r.val), rating_count |-> None]
                                 ELSE [rating |-> Some(r.val), rating_count |-> Some(n.val)]

\* the rating try block, statement by statement: an exception leaves the
\* assignments already made in place
ExtractRating(c) ==
    IF IsNone(c.ratingEl) THEN [rating |-> None, rating_count |-> None]
    ELSE LET el == Get(c.ratingEl)
         IN IF IsNone(el.value) THEN [rating |-> None, rating_count |-> None]
            ELSE LET r == ParseFloat(Strip(SplitFirst(Get(el.value), "/")))
                 IN IF ~r.ok THEN [rating |-> None, rating_count |-> None]
                    ELSE IF IsNone(el.count)
                         THEN [rating |-> Some(r.val), rating_count |-> None]
                         ELSE LET n == ParseInt(StripChars(Strip(Get(el.count)), Parens))
                              IN IF ~n.ok
                                 THEN [rating |-> Some(r.val), rating_count |-> None]
                                 ELSE [rating |-> Some(r.val), rating_count |-> Some(n.val)]

\* Doctor(...) of the loop body
MakeDoctor(c) ==
    LET loc == ExtractLocation(c)
        badge == ExtractBadges(c)
        rt == ExtractRating(c)
    IN [name |-> ExtractName(c),
        specialty |-> ExtractSpecialty(c),
        profile_url |-> ExtractUrl(c),
        image_url |-> ExtractImage(c),
        location |-> loc,
        phone |-> ExtractPhone(c),
        has_multiple_locations |-> ExtractMultipleLocations(c),
        is_employed_provider |-> badge.employed_provider,
        is_accepting_new_patients |-> badge.accepts_new_patients,
        rating |-> rt.rating,
        rating_count |-> rt.rating_count]

\* The three find_element calls outside any inner try: a selector that
\* matches nothing raises NoSuchElementException out of the loop body.
BodyRaises(c) ==
    \/ ~NameSelectorMatches(c)
    \/ IsNone(c.urlEl)
    \/ IsNone(c.specEl)

\* One pass of the try body: the exception, or the candidate record.
ExtractOne(c) ==
    IF BodyRaises(c)
    THEN [raised |-> TRUE, doctor |-> None]
    ELSE [raised |-> FALSE, doctor |-> Some(MakeDoctor(c))]

Names(ds) == {ds[k].name : k \in DOMAIN ds}

\* variant: the membership test on the name is left out
AppendAlways(ds, d) ==
    IF d.name # <<>> THEN Append(ds, d) ELSE ds

\* variant: a new record is inserted at the head of the list
PrependIfNew(ds, d) ==
    IF d.name # <<>> /\ d.name \notin Names(ds) THEN <<d>> \o ds ELSE ds

\* if name and name not in [d.name for d in doctors]: doctors.append(doctor)
AppendIfNew(ds, d) ==
    IF d.name # <<>> /\ d.name \notin Names(ds) THEN Append(ds, d) ELSE ds

\* variant: no except clause around the loop body
FragmentStepUncaught(ds, c) ==
    LET r == ExtractOne(c)
    IN IF r.raised
       THEN [doctors |-> ds, last |-> r, pc |-> "raised"]
       ELSE [doctors |-> AppendIfNew(ds, Get(r.doctor)), last |-> r, pc |-> "loop"]

\* One iteration of the for loop: try body, append, except Exception: continue.
FragmentStep(ds, c) ==
    LET r == ExtractOne(c)
    IN IF r.raised
       THEN [doctors |-> ds, last |-> r, pc |-> "loop"]
       ELSE [doctors |-> AppendIfNew(ds, Get(r.doctor)), last |-> r, pc |-> "loop"]

(***************************************************************************)
(* Fragments of the model.                                                 *)
(***************************************************************************)
TxtRelUrl == <<"/", "p", "r", "o", "v", "i", "d", "e", "r", "/", "1">>
TxtAbsUrl == <<"h", "t", "t", "p", "s", ":", "/", "/", "x", ".", "o", "r", "g", "/", "p", "r", "o", "v", "i", "d", "e", "r", "/", "2">>
TxtViewMap == <<"V", "i", "e", "w", " ", "m", "a", "p">>
TxtTwoLocations == <<"C", "l", "i", "n", "i", "c", " ", "+", "1", " ", "o", "t", "h", "e", "r", " ", "l", "o", "c", "a", "t", "i", "o", "n">>
TxtBadgeEmployed == <<" ", "E", "m", "p", "l", "o", "y", "e", "d", " ", "P", "r", "o", "v", "i", "d", "e", "r", " ">>
TxtBadgeAccepts == <<"A", "c", "c", "e", "p", "t", "s", " ", "N", "e", "w", " ", "P", "a", "t", "i", "e", "n", "t", "s">>
TxtBadgeOther == <<"T", "e", "l", "e", "h", "e", "a", "l", "t", "h">>
TxtTel555 == <<"t", "e", "l", ":", "5", "5", "5", "-", "1", "1", "1", "1">>
TxtTel556 == <<"t", "e", "l", ":", "5", "5", "5", "-", "2", "2", "2", "2">>
TxtTelEmpty == <<"t", "e", "l", ":">>
TxtRating48 == <<"4", ".", "8", " ", "/", " ", "5">>
TxtRating5 == <<"5">>
TxtRatingNA == <<"N", "/", "A">>
TxtRating75 == <<"7", ".", "5", " ", "/", " ", "5">>
TxtRatingNeg == <<"-", "1", " ", "/", " ", "5">>
TxtCount194 == <<"(", "1", "9", "4", ")">>
TxtCount7 == <<" ", "(", "7", ")", " ">>
TxtCountBad == <<"(", "n", "/", "a", ")">>
TxtImg == <<"/", "i", ".", "p", "n", "g">>
TxtA == <<"A">>
TxtPaddedA == <<" ", "A", " ">>
TxtLowerA == <<"a">>
TxtB == <<"B">>
TxtBlank == <<" ">>
TxtX == <<"X">>
TxtY == <<"Y">>
TxtF == <<"F">>
TxtS == <<"S">>

\* every sub-element present and well formed
FullFragment ==
    [nameEl |-> Some(TxtA), urlEl |-> Some(TxtRelUrl), specEl |-> Some(TxtX),
     imgEl |-> Some(TxtImg), multiEl |-> Some(TxtTwoLocations),
     facEl |-> Some(TxtF), addrEl |-> Some(TxtS), phoneEl |-> Some(TxtTel555),
     badges |-> <<TxtBadgeEmployed, TxtBadgeAccepts>>,
     ratingEl |-> Some([value |-> Some(TxtRating48), count |-> Some(TxtCount194)])]

\* a name and nothing else
BareFragment ==
    [nameEl |-> Some(TxtB), urlEl |-> None, specEl |-> None,
     imgEl |-> None, multiEl |-> None, facEl |-> None, addrEl |-> None,
     phoneEl |-> None, badges |-> <<>>, ratingEl |-> None]

\* name, profile link and specialty, and nothing else
MinimalFragment ==
    [BareFragment EXCEPT !.urlEl = Some(TxtAbsUrl), !.specEl = Some(TxtY)]

BaseFragments == {FullFragment, BareFragment, MinimalFragment}

NameEls == {None, Some(TxtA), Some(TxtPaddedA), Some(TxtBlank)}
UrlEls == {None, Some(TxtRelUrl), Some(TxtAbsUrl)}
SpecEls == {None, Some(TxtX)}
ImgEls == {None, Some(TxtImg)}
MultiEls == {None, Some(TxtViewMap), Some(TxtTwoLocations)}
FacEls == {None, Some(TxtF), Some(TxtBlank)}
AddrEls == {None, Some(TxtS), Some(TxtBlank)}
PhoneEls == {None, Some(TxtTel555), Some(TxtTelEmpty)}
BadgeLists == {<<>>, <<TxtBadgeEmployed>>, <<TxtBadgeOther, TxtBadgeAccepts>>,
               <<TxtBadgeAccepts, TxtBadgeEmployed>>}
RatingValues == {None, Some(TxtRating48), Some(TxtRating5), Some(TxtRatingNA),
                 Some(TxtRating75), Some(TxtRatingNeg)}
RatingCounts == {None, Some(TxtCount194), Some(TxtCount7), Some(TxtCountBad)}
RatingEls ==
    {None} \cup {Some([value |-> v, count |-> n]) : v \in RatingValues, n \in RatingCounts}

\* Each base fragment with one group of sub-elements varied over all its cases.
SingleFragments ==
    UNION {
        {[b EXCEPT !.nameEl = n, !.urlEl = u, !.specEl = s] :
            n \in NameEls, u \in UrlEls, s \in SpecEls}
        \cup {[b EXCEPT !.multiEl = m, !.facEl = f, !.addrEl = a] :
            m \in MultiEls, f \in FacEls, a \in AddrEls}
        \cup {[b EXCEPT !.ratingEl = r] : r \in RatingEls}
        \cup {[b EXCEPT !.imgEl = i, !.phoneEl = p, !.badges = g] :
            i \in ImgEls, p \in PhoneEls, g \in BadgeLists}
        : b \in BaseFragments}

\* The fragments that input sequences are built from.
SeqFragments ==
    { FullFragment,
      [FullFragment EXCEPT !.nameEl = Some(TxtPaddedA), !.specEl = Some(TxtY),
                           !.ratingEl = None],
      [MinimalFragment EXCEPT !.nameEl = Some(TxtLowerA)],
      [MinimalFragment EXCEPT !.nameEl = Some(TxtB),
                              !.ratingEl = Some([value |-> Some(TxtRating5), count |-> None])],
      [FullFragment EXCEPT !.nameEl = None, !.facEl = None],
      BareFragment,
      [MinimalFragment EXCEPT !.nameEl = Some(TxtBlank)],
      [FullFragment EXCEPT !.nameEl = None, !.urlEl = Some(TxtAbsUrl)] }

SeqsUpTo(S, n) == UNION {[1..k -> S] : k \in 0..n}

Inputs == SeqsUpTo(SeqFragments, MaxFragments) \cup {<<f>> : f \in SingleFragments}

(***************************************************************************)
(* extract_doctor_info as a state machine: one step per loop iteration.    *)
(***************************************************************************)
NoOutcome == [raised |-> FALSE, doctor |-> None]

ExtractIdle ==
    /\ input = <<>>
    /\ idx = 1
    /\ doctors = <<>>
    /\ last = NoOutcome
    /\ pc = "done"

ProcessFragment ==
    /\ pc = "loop"
    /\ idx <= Len(input)
    /\ LET s == FragmentStep(doctors, input[idx])
       IN /\ doctors' = s.doctors
          /\ last' = s.last
          /\ pc' = s.pc
    /\ idx' = idx + 1
    /\ UNCHANGED <<input, dbVars>>

\* the for loop is exhausted: return doctors
Return ==
    /\ pc = "loop"
    /\ idx > Len(input)
    /\ pc' = "done"
    /\ UNCHANGED <<input, idx, doctors, last, dbVars>>

(***************************************************************************)
(* The doctors table and save_doctor.                                      *)
(***************************************************************************)
TxtPhone1 == <<"5", "5", "5", "-", "1", "1", "1", "1">>
TxtPhone2 == <<"5", "5", "5", "-", "2", "2", "2", "2">>
TxtC == <<"C">>
TxtD == <<"D">>
TxtE == <<"E">>
TxtG == <<"G">>

DoctorDict(name, url, phone, multi, rating) ==
    [name |-> name, specialty |-> None, profile_url |-> url, image_url |-> None,
     location |-> None, phone |-> phone, has_multiple_locations |-> multi,
     is_employed_provider |-> FALSE, is_accepting_new_patients |-> FALSE,
     rating |-> rating, rating_count |-> None]

\* asdict(doctor) values handed to save_doctor
SaveInputs ==
    { DoctorDict(TxtA, Some(BASE_URL \o TxtRelUrl), Some(TxtPhone1), FALSE, Some(48)),
      DoctorDict(TxtB, Some(BASE_URL \o TxtRelUrl), Some(TxtPhone2), TRUE, None),
      DoctorDict(TxtC, Some(TxtAbsUrl), Some(TxtPhone1), FALSE, Some(0)),
      DoctorDict(TxtD, None, Some(TxtPhone2), TRUE, Some(50)),
      DoctorDict(TxtE, Some(<<>>), None, FALSE, None),
      DoctorDict(TxtG, None, Some(<<>>), FALSE, None) }

\* a truthy optional string: neither None nor ''
Truthy(o) == ~IsNone(o) /\ Get(o) # <<>>

\* Doctor(**doctor_data) with the primary key the database assigns
Row(d, id) ==
    [f \in DOMAIN d \cup {"id"} |-> IF f = "id" THEN id ELSE d[f]]

\* variant: the lookup filters on name instead of profile_url
ExistingRowsByName(tbl, d) ==
    {i \in DOMAIN tbl : tbl[i].name = d.name}

\* session.query(Doctor).filter_by(profile_url=...): the rows a lookup may
\* return; none when doctor_data['profile_url'] is falsy
ExistingRows(tbl, d) ==
    IF Truthy(d.profile_url)
    THEN {i \in DOMAIN tbl : tbl[i].profile_url = d.profile_url}
    ELSE {}

\* The outcomes of save_doctor(d): .first() has no ORDER BY, so any matching
\* row may be the one updated.
SaveOutcomes(tbl, nid, d) ==
    LET found == ExistingRows(tbl, d)
    IN IF found # {}
       THEN {[table |-> [tbl EXCEPT ![i] = Row(d, tbl[i].id)],
              nextId |-> nid, id |-> tbl[i].id] : i \in found}
       ELSE {[table |-> Append(tbl, Row(d, nid)), nextId |-> nid + 1, id |-> nid]}

NoSave == [data |-> None, id |-> None]

SaveDoctor ==
    /\ calls < MaxSaves
    /\ \E d \in SaveInputs :
        \E o \in SaveOutcomes(table, nextId, d) :
            /\ table' = o.table
            /\ nextId' = o.nextId
            /\ lastSave' = [data |-> Some(d), id |-> Some(o.id)]
    /\ calls' = calls + 1
    /\ UNCHANGED <<analysis, extractVars>>

(***************************************************************************)
(* analyze_doctors.                                                        *)
(***************************************************************************)
\* doc.rating and doc.rating > 0
HasRating(doc) == ~IsNone(doc.rating) /\ Get(doc.rating) # 0 /\ Get(doc.rating) > 0

\* phone_map[doctor.phone].append(doctor): a dict keeps its keys in
\* insertion order; the map is a sequence of [phone, docs] entries
AddToPhoneMap(pm, doc) ==
    IF \E k \in DOMAIN pm : pm[k].phone = Get(doc.phone)
    THEN [k \in DOMAIN pm |->
            IF pm[k].phone = Get(doc.phone)
            THEN [pm[k] EXCEPT !.docs = Append(@, doc)]
            ELSE pm[k]]
    ELSE Append(pm, [phone |-> Get(doc.phone), docs |-> <<doc>>])

RECURSIVE PhoneMap(_)
PhoneMap(rows) ==
    IF rows = <<>> THEN <<>>
    ELSE LET pm == PhoneMap(SubSeq(rows, 1, Len(rows) - 1))
             doc == rows[Len(rows)]
         IN IF Truthy(doc.phone) THEN AddToPhoneMap(pm, doc) ELSE pm

\* variant: len(docs) > 0
HasAny(entry) == Len(entry.docs) > 0

HasSeveral(entry) == Len(entry.docs) > 1
IsMultiLocation(doc) == doc.has_multiple_locations

\* {phone: docs for phone, docs in phone_map.items() if len(docs) > 1}
SharedPhones(rows) == SelectSeq(PhoneMap(rows), HasSeveral)

Brief(doc) == [name |-> doc.name, profile_url |-> doc.profile_url]
BriefAll(docs) == [k \in DOMAIN docs |-> Brief(docs[k])]

\* report_data
Report(rows) ==
    LET shared == SharedPhones(rows)
        multi == SelectSeq(rows, IsMultiLocation)
    IN [summary |->
          [total_doctors |-> Len(rows),
           doctors_with_ratings |-> Len(SelectSeq(rows, HasRating)),
           shared_phone_numbers |-> Len(shared),
           doctors_with_multiple_locations |-> Len(multi)],
        shared_phone_numbers |->
          [k \in DOMAIN shared |->
             [phone |-> shared[k].phone, docs |-> BriefAll(shared[k].docs)]],
        doctors_with_multiple_locations |-> BriefAll(multi)]

\* len(doctors_with_ratings)/total_doctors*100 in the logging call:
\* ZeroDivisionError when there are no rows
PercentRaises(rows) == Len(rows) = 0

\* analyze_doctors over the rows get_all_doctors returned
AnalyzeOutcome(rows) ==
    IF PercentRaises(rows)
    THEN [rows |-> rows, raised |-> TRUE, report |-> None]
    ELSE [rows |-> rows, raised |-> FALSE, report |-> Some(Report(rows))]

AnalyzeDoctors ==
    /\ analysis' = Some(AnalyzeOutcome(table))
    /\ UNCHANGED <<table, nextId, calls, lastSave, extractVars>>

DbIdle ==
    /\ table = <<>>
    /\ nextId = 1
    /\ calls = 0
    /\ lastSave = NoSave
    /\ analysis = None

(***************************************************************************)
(* Specifications.                                                         *)
(***************************************************************************)
\* extract_doctor_info over one input
Init ==
    /\ input \in Inputs
    /\ idx = 1
    /\ doctors = <<>>
    /\ last = NoOutcome
    /\ pc = "loop"
    /\ DbIdle

Next == ProcessFragment \/ Return

Spec == Init /\ [][Next]_vars

\* the persistence layer and the aggregator, from an empty table
InitDb == ExtractIdle /\ DbIdle

NextDb == SaveDoctor \/ AnalyzeDoctors

SpecDb == InitDb /\ [][NextDb]_vars
(***************************************************************************)
(* Properties of extract_doctor_info (specification Spec).                 *)
(***************************************************************************)
\* the fragment processed by the latest loop iteration
Current == input[idx - 1]

\* fragment c gives a candidate record with the non-empty name n
Yields(c, n) == ~BodyRaises(c) /\ n # <<>> /\ ExtractName(c) = n

YieldsRecord(c) == ~BodyRaises(c) /\ ExtractName(c) # <<>>

\* C1: a fragment in which the name selector matches nothing (and the
\* profile link and the specialty are found) is not dropped: its iteration
\* builds a record named "Unknown Doctor", and the result holds a record of
\* that name.
C1_SentinelOnNameFailure ==
    (/\ idx > 1
     /\ ~NameSelectorMatches(Current)
     /\ ~IsNone(Current.urlEl) /\ ~IsNone(Current.specEl)) =>
        /\ ~last.raised
        /\ Get(last.doctor).name = UnknownDoctor
        /\ UnknownDoctor \in Names(doctors)

HasOnlyName(c) ==
    /\ ~IsNone(c.nameEl) /\ Strip(Get(c.nameEl)) # <<>>
    /\ IsNone(c.urlEl) /\ IsNone(c.specEl) /\ IsNone(c.imgEl)
    /\ IsNone(c.multiEl) /\ IsNone(c.facEl) /\ IsNone(c.addrEl)
    /\ IsNone(c.phoneEl) /\ c.badges = <<>> /\ IsNone(c.ratingEl)

BareDoctor(n) ==
    [name |-> n, specialty |-> None, profile_url |-> None, image_url |-> None,
     location |-> None, phone |-> None, has_multiple_locations |-> FALSE,
     is_employed_provider |-> FALSE, is_accepting_new_patients |-> FALSE,
     rating |-> None, rating_count |-> None]

\* C2: a fragment with a name and no optional sub-element does not raise:
\* its iteration builds the record with the parsed name, every optional
\* field absent and the three flags false, and the result holds a record
\* of that name.
C2_BareFragmentEmitted ==
    (idx > 1 /\ HasOnlyName(Current)) =>
        /\ ~last.raised
        /\ Get(last.doctor) = BareDoctor(Strip(Get(Current.nameEl)))
        /\ Strip(Get(Current.nameEl)) \in Names(doctors)

\* C3: at every point of the loop no two records of the result share a
\* name, every record of the result is the candidate of the first processed
\* fragment that gave a record of its name, and every name a processed
\* fragment gave a record for is in the result.
C3_DedupFirstWins ==
    /\ \A j, k \in DOMAIN doctors : j # k => doctors[j].name # doctors[k].name
    /\ \A k \in DOMAIN doctors :
        LET from == {i \in 1..(idx - 1) : Yields(input[i], doctors[k].name)}
        IN from # {} /\ doctors[k] = Get(ExtractOne(input[MinOf(from)]).doctor)
    /\ \A i \in 1..(idx - 1) :
        YieldsRecord(input[i]) => ExtractName(input[i]) \in Names(doctors)

\* C3 witness: the call has returned, and two fragments with different name
\* texts gave different candidates of the same trimmed name.
C3_Witness ==
    /\ pc = "done"
    /\ \E i, j \in DOMAIN input :
        /\ i < j
        /\ YieldsRecord(input[i]) /\ YieldsRecord(input[j])
        /\ input[i].nameEl # input[j].nameEl
        /\ ExtractName(input[i]) = ExtractName(input[j])
        /\ ExtractOne(input[i]) # ExtractOne(input[j])

\* C4: an exception of the loop body never leaves the call: the loop is
\* always at a fragment of the input or at its end, and has returned only
\* from the end; every processed fragment that gives a record has its name
\* in the result, whatever failed before it; every iteration moves to the
\* next fragment and keeps the records already accepted as a prefix of the
\* result, and the iteration of a failing fragment adds nothing.
C4_FragmentFailureIsolated ==
    /\ [](/\ pc \in {"loop", "done"}
          /\ idx \in 1..(Len(input) + 1)
          /\ pc = "done" => idx = Len(input) + 1
          /\ \A i \in 1..(idx - 1) :
                YieldsRecord(input[i]) => ExtractName(input[i]) \in Names(doctors))
    /\ [][/\ pc = "loop" /\ (idx' = idx + 1 \/ (idx > Len(input) /\ pc' = "done"))
          /\ Len(doctors') >= Len(doctors)
          /\ SubSeq(doctors', 1, Len(doctors)) = doctors
          /\ (idx <= Len(input) /\ BodyRaises(input[idx])) => doctors' = doctors]_vars

\* C4 witness: the call has returned after a fragment failed between two
\* fragments whose records are both in the result.
C4_Witness ==
    /\ pc = "done"
    /\ \E h, i, j \in DOMAIN input :
        /\ h < i /\ i < j
        /\ YieldsRecord(input[h]) /\ BodyRaises(input[i]) /\ YieldsRecord(input[j])
        /\ ExtractName(input[h]) # ExtractName(input[j])
        /\ doctors = <<Get(ExtractOne(input[h]).doctor), Get(ExtractOne(input[j]).doctor)>>

\* C6: in every record of the result, rating and rating_count are both
\* absent or both set.
C6_RatingPairAtomic ==
    \A k \in DOMAIN doctors :
        IsNone(doctors[k].rating) <=> IsNone(doctors[k].rating_count)

Present(el) == ~IsNone(el) /\ Strip(Get(el)) # <<>>

\* the composition rule of the data model
LocationRule(c) ==
    IF Present(c.facEl) /\ Present(c.addrEl)
    THEN Some(Strip(Get(c.facEl)) \o LocationJoin \o Strip(Get(c.addrEl)))
    ELSE IF Present(c.addrEl) THEN Some(Strip(Get(c.addrEl)))
    ELSE IF Present(c.facEl) THEN Some(Strip(Get(c.facEl)))
    ELSE None

\* C7: the record built from a fragment has the location the composition
\* rule gives for the fragment's facility name and street address, in all
\* four presence combinations.
C7_LocationComposition ==
    (idx > 1 /\ ~last.raised) =>
        Get(last.doctor).location = LocationRule(Current)

AllYieldDistinct ==
    /\ \A i \in DOMAIN input : YieldsRecord(input[i])
    /\ \A i, j \in DOMAIN input :
        i # j => ExtractName(input[i]) # ExtractName(input[j])

\* C10: when every fragment gives a record and the names are pairwise
\* distinct, the returned list is the list of those records in input order.
C10_OrderPreserved ==
    (pc = "done" /\ AllYieldDistinct) =>
        doctors = [i \in DOMAIN input |-> Get(ExtractOne(input[i]).doctor)]

\* C10 witness: the call has returned on an input of MaxFragments fragments
\* with pairwise distinct names, all of which gave a record.
C10_Witness ==
    pc = "done" /\ AllYieldDistinct /\ Len(input) = MaxFragments

\* a rating in tenths lies in [0, 5]
InRange(v) == v >= 0 /\ v <= 50

\* C11 (as claimed): every record of the result has a rating that is absent
\* or within [0, 5].
C11_RatingInRange ==
    \A k \in DOMAIN doctors :
        IsNone(doctors[k].rating) \/ InRange(Get(doctors[k].rating))

\* the number (in tenths) each rating text of the model writes before its
\* '/', for the texts that write one
RatingTexts ==
    { <<TxtRating48, 48>>, <<TxtRating5, 50>>, <<TxtRating75, 75>>,
      <<TxtRatingNeg, -10>> }

\* the rating the text of the ratingValue span stands for, if any
WrittenRating(c) ==
    IF IsNone(c.ratingEl) \/ IsNone(Get(c.ratingEl).value) THEN None
    ELSE LET hits == {p \in RatingTexts : p[1] = Get(Get(c.ratingEl).value)}
         IN IF hits = {} THEN None ELSE Some((CHOOSE p \in hits : TRUE)[2])

\* C11 (amended): a missing or non-numeric rating text never fails the
\* fragment and gives an absent rating; a numeric one gives exactly the
\* number written before the '/', whether or not it lies in [0, 5].
C11_RatingAsWritten ==
    /\ (idx > 1 /\ ~IsNone(Current.urlEl) /\ ~IsNone(Current.specEl)
               /\ NameSelectorMatches(Current)) =>
            /\ ~last.raised
            /\ Get(last.doctor).rating = WrittenRating(Current)
    /\ \A k \in DOMAIN doctors :
            \/ IsNone(doctors[k].rating)
            \/ \E p \in RatingTexts : doctors[k].rating = Some(p[2])

\* C11 witness: the result holds a record whose rating text wrote a number
\* above 5, kept as written.
C11_Witness ==
    /\ pc = "done"
    /\ Len(input) = 1
    /\ WrittenRating(input[1]) = Some(75)
    /\ Len(doctors) = 1
    /\ doctors[1].rating = Some(75)

(***************************************************************************)
(* Properties of save_doctor and analyze_doctors (specification SpecDb).   *)
(***************************************************************************)
\* C5: analyze_doctors over no rows does not raise and reports
\* total_doctors = 0.
C5_EmptyAnalysisReports ==
    (~IsNone(analysis) /\ Get(analysis).rows = <<>>) =>
        /\ ~Get(analysis).raised
        /\ Get(Get(analysis).report).summary.total_doctors = 0

\* C8: for a non-empty list of rows the call returns a report whose
\* shared_phone_numbers has one key for each non-empty phone value carried
\* by two rows or more and no other key, each key once, keys in the order
\* in which the values are first met; each group lists the rows with that
\* phone, all of them and in input order; and the summary counts the keys.
C8_SharedPhoneGroups ==
    (~IsNone(analysis) /\ Get(analysis).rows # <<>>) =>
        /\ ~Get(analysis).raised
        /\ LET rows == Get(analysis).rows
               rep == Get(Get(analysis).report)
               sp == rep.shared_phone_numbers
               Carriers(p) == {i \in DOMAIN rows : rows[i].phone = Some(p)}
               Values == {Get(rows[i].phone) :
                            i \in {h \in DOMAIN rows : Truthy(rows[h].phone)}}
           IN /\ {sp[k].phone : k \in DOMAIN sp}
                    = {p \in Values : Cardinality(Carriers(p)) >= 2}
              /\ \A j, k \in DOMAIN sp : j # k => sp[j].phone # sp[k].phone
              /\ \A j, k \in DOMAIN sp :
                    j < k => MinOf(Carriers(sp[j].phone)) < MinOf(Carriers(sp[k].phone))
              /\ \A k \in DOMAIN sp :
                    LET HasPhone(r) == r.phone = Some(sp[k].phone)
                        members == SelectSeq(rows, HasPhone)
                    IN sp[k].docs =
                         [m \in DOMAIN members |->
                            [name |-> members[m].name,
                             profile_url |-> members[m].profile_url]]
              /\ rep.summary.shared_phone_numbers = Len(sp)

\* C8 witness: a report with two groups over five rows, one of them without
\* a phone, where the second key became shared before the first one did.
C8_Witness ==
    /\ ~IsNone(analysis)
    /\ ~Get(analysis).raised
    /\ LET rows == Get(analysis).rows
           sp == Get(Get(analysis).report).shared_phone_numbers
       IN /\ Len(sp) = 2
          /\ Len(rows) = 5
          /\ rows[1].phone = Some(sp[1].phone)
          /\ rows[2].phone = Some(sp[2].phone)
          /\ IsNone(rows[3].phone)
          /\ rows[4].phone = Some(sp[2].phone)
          /\ rows[5].phone = Some(sp[1].phone)

\* C9: no two rows share a non-empty profile_url; and a save_doctor call
\* whose profile_url is non-empty and equal to that of a row overwrites that
\* row, keeps its id, returns it and leaves the number of rows as it was,
\* while any other call appends one row under an id no row had.
C9_UpsertByProfileUrl ==
    /\ [](\A i, j \in DOMAIN table :
            (i # j /\ Truthy(table[i].profile_url))
                => table[i].profile_url # table[j].profile_url)
    /\ [][calls' = calls + 1 =>
            LET d == Get(lastSave'.data)
                id == Get(lastSave'.id)
                same == {i \in DOMAIN table :
                           Truthy(d.profile_url) /\ table[i].profile_url = d.profile_url}
            IN IF same # {}
               THEN /\ Len(table') = Len(table)
                    /\ \E i \in same :
                        /\ id = table[i].id
                        /\ table' = [table EXCEPT ![i] = Row(d, id)]
               ELSE /\ table' = Append(table, Row(d, id))
                    /\ \A i \in DOMAIN table : table[i].id # id]_vars

\* C9 witness: three calls have left two rows: the second call overwrote
\* the first row under its id, the third one inserted.
C9_Witness ==
    /\ calls = Len(table) + 1
    /\ Len(table) = 2
    /\ table[1].id = 1 /\ table[1].name = TxtB
    /\ table[2].id = 2
    /\ lastSave.id = Some(2)
====
